---- MODULE Spec2Model ----
(***************************************************************************)
(* KubeDevice kubeinterface: the annotation codec, the node and pod        *)
(* reconcilers, the patch builder and the write-back operations of         *)
(* src/kubeinterface/kubeinterface.go.                                     *)
(*                                                                         *)
(* The functions of the package are operators; the callers of the package  *)
(* (device advertiser, scheduler, other writers of the same object) are    *)
(* the actions.  Three groups of variables hold the callers' state: the    *)
(* node side, the pod side and the remote store side.  `scn` names the     *)
(* group a behaviour exercises; the other groups stay at their defaults.   *)
(***************************************************************************)
EXTENDS Integers, FiniteSets, Sequences, TLC

VARIABLES
  scn,       \* which caller group this behaviour exercises
  knode,     \* the kubev1.Node handed to the node functions (metadata + status)
  existing,  \* the scheduler's cached *types.NodeInfo (NilNodeInfo: none yet)
  nenc,      \* the NodeInfo last written by NodeInfoToAnnotation (NilNodeInfo: none)
  ncall,     \* the last node call: operation, existingNodeInfo passed, outcome
  kpod,      \* the kubev1.Pod handed to the pod functions (metadata + spec)
  penc,      \* the PodInfo last written by PodInfoToAnnotation, and where it came from
  pcall,     \* the last pod call: operation, invalidate flag, outcome
  remote,    \* the live object in the remote store
  wb,        \* the write-back operation in progress: its arguments, position, outcome
  wrote,     \* what other writers wrote since oldObject was read: field -> value
  nwrites    \* how many writes the other writers made

nodeVars == <<knode, existing, nenc, ncall>>

podVars == <<kpod, penc, pcall>>

storeVars == <<remote, wb, wrote, nwrites>>

----------------------------------------------------------------------------
(* Bounds and value sets *)

\* resource quantities in the private model range over 1..MaxVal
MaxVal == 2

ResNames == {"gpu", "mem"}

\* a Go map[ResourceName]int64 is a function from a subset of the names
MapsOver(names, vals) == UNION {[d -> vals] : d \in SUBSET names}

ResourceLists == MapsOver(ResNames, 1..MaxVal)

EmptyMap == [k \in {} |-> 0]

\* an annotation key that is not set
Unset == "<unset>"

\* a nil Go map: reads as empty, a write to it panics
NilMap == [k \in {"<nil>"} |-> 0]

Keys(m) == IF m = NilMap THEN {} ELSE DOMAIN m

\* for k, v := range src { dst[k] = v }  on a non-nil dst
Overwrite(dst, src) ==
  [k \in DOMAIN dst \cup Keys(src) |-> IF k \in Keys(src) THEN src[k] ELSE dst[k]]

\* len(strings.TrimSpace(s)) == 0
IsBlank(s) == s \in {"", " "}

----------------------------------------------------------------------------
(* types.NodeInfo and its JSON form *)

NilNodeInfo == [nil |-> TRUE]

\* types.NewNodeInfo(): empty name, every map made
NewNodeInfo == [Name |-> "", Used |-> EmptyMap, KubeCap |-> EmptyMap, KubeAlloc |-> EmptyMap]

\* A JSON field of map type in an annotation document
FieldAbsent == [t |-> "absent"]
FieldNull == [t |-> "null"]
FieldMap(m) == [t |-> "map", m |-> m]

\* An annotation value under the key "KubeDevice/DeviceInfo"
AnnAbsent == [t |-> "absent"]
AnnMalformed == [t |-> "malformed"]
AnnDoc(d) == [t |-> "doc", d |-> d]

\* omitempty on a map: a nil or empty map is left out
MarshalMap(m) == IF Keys(m) = {} THEN FieldAbsent ELSE FieldMap(m)

\* json.Unmarshal of a map field into the map `cur` of the target struct:
\* absent leaves it, null sets it to nil, an object is stored key by key
UnmarshalMap(cur, f) ==
  CASE f.t = "absent" -> cur
    [] f.t = "null" -> NilMap
    [] OTHER -> IF cur = NilMap THEN f.m ELSE Overwrite(cur, f.m)

\* json.Marshal(nodeInfo): name and used are written (omitempty); KubeCap and
\* KubeAlloc carry the tag json:"-" and are never written
MarshalNodeInfoNoUsed(nodeInfo) ==
  [name |-> nodeInfo.Name, used |-> FieldAbsent, kubecap |-> FieldAbsent]

MarshalNodeInfo(nodeInfo) ==
  [name |-> nodeInfo.Name, used |-> MarshalMap(nodeInfo.Used), kubecap |-> FieldAbsent]

\* json.Unmarshal(doc, nodeInfo) on top of NewNodeInfo(); a key written for
\* KubeCap matches no field (json:"-") and is skipped
UnmarshalNodeInfo(into, d) ==
  [into EXCEPT !.Name = IF d.name = "" THEN @ ELSE d.name,
               !.Used = UnmarshalMap(@, d.used)]

----------------------------------------------------------------------------
(* NodeInfoToAnnotation, AnnotationToNodeInfo, KubeNodeToNodeInfo *)

Ok(m) == [status |-> "ok", m |-> m]
Err == [status |-> "err", m |-> NilNodeInfo]
Panic == [status |-> "panic", m |-> NilNodeInfo]

\* lines 35-38 (and 135-138): the annotations map is made when nil and the
\* key "KubeDevice/DeviceInfo" is set; other keys and fields stay
SetDeviceAnnotationFreshMap(meta, info) ==
  [meta EXCEPT !.anns = "made", !.ann = AnnDoc(info), !.other = Unset]

SetDeviceAnnotation(meta, info) ==
  [meta EXCEPT !.anns = "made", !.ann = AnnDoc(info)]

\* lines 30-41: an error of json.Marshal is returned with the metadata
\* untouched, else the annotation key is set to the serialized model
NodeInfoToAnnotation(meta, nodeInfo, marshalErr) ==
  IF marshalErr THEN [status |-> "err", meta |-> meta]
  ELSE [status |-> "ok", meta |-> SetDeviceAnnotation(meta, MarshalNodeInfo(nodeInfo))]

\* lines 58-62: merge of the cached Used into the decoded model
MergeUsedDecodedWins(nodeInfo, existingNodeInfo) ==
  IF existingNodeInfo # NilNodeInfo /\ existingNodeInfo.Used # NilMap
  THEN IF Keys(existingNodeInfo.Used) = {} THEN Ok(nodeInfo)
       ELSE IF nodeInfo.Used = NilMap THEN Panic
       ELSE Ok([nodeInfo EXCEPT !.Used = Overwrite(existingNodeInfo.Used, @)])
  ELSE Ok(nodeInfo)

MergeUsedOnlyWhenEmpty(nodeInfo, existingNodeInfo) ==
  IF existingNodeInfo # NilNodeInfo /\ existingNodeInfo.Used # NilMap
     /\ Keys(nodeInfo.Used) = {}
  THEN IF Keys(existingNodeInfo.Used) = {} THEN Ok(nodeInfo)
       ELSE IF nodeInfo.Used = NilMap THEN Panic
       ELSE Ok([nodeInfo EXCEPT !.Used = Overwrite(@, existingNodeInfo.Used)])
  ELSE Ok(nodeInfo)

MergeUsed(nodeInfo, existingNodeInfo) ==
  IF existingNodeInfo # NilNodeInfo /\ existingNodeInfo.Used # NilMap
  THEN IF Keys(existingNodeInfo.Used) = {} THEN Ok(nodeInfo)
       ELSE IF nodeInfo.Used = NilMap THEN Panic
       ELSE Ok([nodeInfo EXCEPT !.Used = Overwrite(@, existingNodeInfo.Used)])
  ELSE Ok(nodeInfo)

\* lines 55-57
DefaultNameWhenEmpty(nodeInfo, meta) ==
  IF nodeInfo.Name = "" THEN [nodeInfo EXCEPT !.Name = meta.name] ELSE nodeInfo

DefaultName(nodeInfo, meta) ==
  IF IsBlank(nodeInfo.Name) THEN [nodeInfo EXCEPT !.Name = meta.name] ELSE nodeInfo

\* lines 45-54: (decoded model, error?)
DecodeNodeAnnotationAbsentIsError(meta) ==
  CASE meta.anns = "nil" -> Err
    [] meta.ann.t = "absent" -> Err
    [] meta.ann.t = "malformed" -> Err
    [] OTHER -> Ok(UnmarshalNodeInfo(NewNodeInfo, meta.ann.d))

DecodeNodeAnnotation(meta) ==
  CASE meta.anns = "nil" -> Ok(NewNodeInfo)
    [] meta.ann.t = "absent" -> Ok(NewNodeInfo)
    [] meta.ann.t = "malformed" -> Err
    [] OTHER -> Ok(UnmarshalNodeInfo(NewNodeInfo, meta.ann.d))

\* lines 44-65
AnnotationToNodeInfo(meta, existingNodeInfo) ==
  LET dec == DecodeNodeAnnotation(meta) IN
  IF dec.status # "ok" THEN dec
  ELSE MergeUsed(DefaultName(dec.m, meta), existingNodeInfo)

\* resource.Quantity.Value(): the quantity (held in thousandths) rounded up
QuantityValue(q) == (q + 999) \div 1000

\* lines 72-77: for k, v := range list { dst[k] = v.Value() }
CopyQuantitiesNone(dst, list) == dst

CopyQuantities(dst, list) ==
  [k \in DOMAIN dst \cup DOMAIN list |->
     IF k \in DOMAIN list THEN QuantityValue(list[k]) ELSE dst[k]]

\* lines 67-79
KubeNodeToNodeInfo(kn, existingNodeInfo) ==
  LET r == AnnotationToNodeInfo(kn, existingNodeInfo) IN
  IF r.status # "ok" THEN r
  ELSE Ok([r.m EXCEPT !.KubeCap = CopyQuantities(@, kn.cap),
                      !.KubeAlloc = CopyQuantities(@, kn.alloc)])

----------------------------------------------------------------------------
(* Node side: value sets *)

NodeName == "n1"

\* names a serialized model may carry: none, blank, the node's own, another
DocNames == {"", " ", "n1", "n2"}

UsedFields == {FieldAbsent, FieldNull} \cup {FieldMap(m) : m \in ResourceLists}

\* a writer may also have left a key for the capacity, which no field decodes
NodeDocs ==
  [name : DocNames, used : UsedFields, kubecap : {FieldAbsent}]
  \cup [name : {"n1"}, used : {FieldAbsent, FieldMap([k \in {"gpu"} |-> 1])},
        kubecap : {FieldMap([k \in {"gpu"} |-> MaxVal])}]

NodeAnnVals == {AnnAbsent, AnnMalformed} \cup {AnnDoc(d) : d \in NodeDocs}

\* status.capacity / status.allocatable as reported by the kubelet, in thousandths
NodeStatuses ==
  [cap : {[k \in {"gpu"} |-> 500], [k \in {"gpu"} |-> 2000]},
   alloc : MapsOver({"mem"}, {1000})]

\* the models a device advertiser hands to NodeInfoToAnnotation
AdvertisedNodeInfos ==
  [Name : DocNames, Used : ResourceLists \cup {NilMap},
   KubeCap : {EmptyMap, [k \in {"gpu"} |-> 1]}, KubeAlloc : {EmptyMap}]

NoNodeCall == [op |-> "none", in |-> NilNodeInfo, status |-> "none", m |-> NilNodeInfo]

NodeCall(op, in, r) == [op |-> op, in |-> in, status |-> r.status, m |-> r.m]

\* a node with no annotations map (anns: is the map nil or made; ann: the
\* value under "KubeDevice/DeviceInfo"; other: the value under another key)
NodeIdle ==
  [name |-> NodeName, anns |-> "nil", ann |-> AnnAbsent, other |-> Unset,
   labels |-> "l0", cap |-> EmptyMap, alloc |-> EmptyMap]

\* the annotations the object carries beside the device key: no map at all,
\* or a map holding another writer's key
MetaShapes == {[anns |-> "nil", other |-> Unset], [anns |-> "made", other |-> "x"]}

----------------------------------------------------------------------------
(* Node side: the callers *)

SchedulerRunning == scn = "scheduler" /\ ncall.status # "panic"

AdvertiserRunning == scn = "advertiser" /\ ncall.status # "panic"

\* any other writer of the node object replaces the annotation value
NodeExternalWrite ==
  /\ SchedulerRunning
  /\ \E v \in NodeAnnVals :
       knode' = [knode EXCEPT !.ann = v,
                              !.anns = IF v = AnnAbsent THEN @ ELSE "made"]
  /\ ncall' = NoNodeCall
  /\ UNCHANGED <<scn, existing, nenc, podVars, storeVars>>

\* the scheduler reads the annotation alone; the previous result is the
\* existingNodeInfo and the result becomes the cached model
AnnotationToNodeInfoCall ==
  /\ SchedulerRunning
  /\ LET r == AnnotationToNodeInfo(knode, existing) IN
       /\ ncall' = NodeCall("AnnotationToNodeInfo", existing, r)
       /\ existing' = IF r.status = "ok" THEN r.m ELSE existing
  /\ UNCHANGED <<scn, knode, nenc, podVars, storeVars>>

\* the scheduler's node sync: the previous result is the existingNodeInfo
KubeNodeToNodeInfoCall ==
  /\ SchedulerRunning
  /\ LET r == KubeNodeToNodeInfo(knode, existing) IN
       /\ ncall' = NodeCall("KubeNodeToNodeInfo", existing, r)
       /\ existing' = IF r.status = "ok" THEN r.m ELSE existing
  /\ UNCHANGED <<scn, knode, nenc, podVars, storeVars>>

\* the device advertiser serializes its model into the node's metadata
NodeInfoToAnnotationCall ==
  /\ AdvertiserRunning
  /\ \E nodeInfo \in AdvertisedNodeInfos, marshalErr \in BOOLEAN :
       LET r == NodeInfoToAnnotation(knode, nodeInfo, marshalErr) IN
       /\ knode' = r.meta
       /\ nenc' = IF r.status = "ok" THEN nodeInfo ELSE nenc
       /\ ncall' = NodeCall("NodeInfoToAnnotation", NilNodeInfo,
                            IF r.status = "ok" THEN Ok(nodeInfo) ELSE Err)
  /\ UNCHANGED <<scn, existing, podVars, storeVars>>

\* the annotation just written is read back with no existingNodeInfo
AnnotationToNodeInfoNilCall ==
  /\ AdvertiserRunning
  /\ ncall' = NodeCall("AnnotationToNodeInfo", NilNodeInfo,
                       AnnotationToNodeInfo(knode, NilNodeInfo))
  /\ UNCHANGED <<scn, knode, existing, nenc, podVars, storeVars>>

----------------------------------------------------------------------------
(* types.PodInfo, types.ContainerInfo and their JSON form *)

\* types.NewContainerInfo(): every map made
NewContainerInfo ==
  [KubeRequests |-> EmptyMap, Requests |-> EmptyMap,
   DevRequests |-> EmptyMap, AllocateFrom |-> EmptyMap]

\* the zero value of the struct: every map nil
ZeroContainerInfo ==
  [KubeRequests |-> NilMap, Requests |-> NilMap,
   DevRequests |-> NilMap, AllocateFrom |-> NilMap]

\* types.FillContainerInfo(&cont): a new ContainerInfo whose nil maps are made
FillContainerInfo(cont) ==
  [f \in DOMAIN cont |-> IF cont[f] = NilMap THEN EmptyMap ELSE cont[f]]

\* types.NewPodInfo(): empty names, both container maps made
NewPodInfo ==
  [Name |-> "", NodeName |-> "", InitContainers |-> EmptyMap, RunningContainers |-> EmptyMap]

NilPodInfo == [nil |-> TRUE]

\* json.Marshal of a ContainerInfo: KubeRequests carries json:"-"
MarshalContainerInfoNoRequests(cont) ==
  [requests |-> FieldAbsent,
   devrequests |-> MarshalMap(cont.DevRequests),
   allocatefrom |-> MarshalMap(cont.AllocateFrom),
   kuberequests |-> FieldAbsent]

MarshalContainerInfo(cont) ==
  [requests |-> MarshalMap(cont.Requests),
   devrequests |-> MarshalMap(cont.DevRequests),
   allocatefrom |-> MarshalMap(cont.AllocateFrom),
   kuberequests |-> FieldAbsent]

\* json.Unmarshal of one container document into a fresh zero value; a
\* "kuberequests" key matches no field (KubeRequests is json:"-") and is skipped
UnmarshalContainerInfoWithKube(d) ==
  [ZeroContainerInfo EXCEPT !.Requests = UnmarshalMap(@, d.requests),
                            !.DevRequests = UnmarshalMap(@, d.devrequests),
                            !.AllocateFrom = UnmarshalMap(@, d.allocatefrom),
                            !.KubeRequests = UnmarshalMap(@, d.kuberequests)]

UnmarshalContainerInfo(d) ==
  [ZeroContainerInfo EXCEPT !.Requests = UnmarshalMap(@, d.requests),
                            !.DevRequests = UnmarshalMap(@, d.devrequests),
                            !.AllocateFrom = UnmarshalMap(@, d.allocatefrom)]

\* omitempty on map[string]ContainerInfo
MarshalContainers(cm) ==
  IF Keys(cm) = {} THEN FieldAbsent
  ELSE FieldMap([c \in DOMAIN cm |-> MarshalContainerInfo(cm[c])])

UnmarshalContainers(cur, f) ==
  CASE f.t = "absent" -> cur
    [] f.t = "null" -> NilMap
    [] OTHER -> LET dec == [c \in DOMAIN f.m |-> UnmarshalContainerInfo(f.m[c])] IN
                IF cur = NilMap THEN dec ELSE Overwrite(cur, dec)

\* json.Marshal(podInfo)
MarshalPodInfo(podInfo) ==
  [podname |-> podInfo.Name, nodename |-> podInfo.NodeName,
   initcontainer |-> MarshalContainers(podInfo.InitContainers),
   runningcontainer |-> MarshalContainers(podInfo.RunningContainers)]

\* json.Unmarshal(doc, podInfo) on top of NewPodInfo()
UnmarshalPodInfo(into, d) ==
  [into EXCEPT !.Name = IF d.podname = "" THEN @ ELSE d.podname,
               !.NodeName = IF d.nodename = "" THEN @ ELSE d.nodename,
               !.InitContainers = UnmarshalContainers(@, d.initcontainer),
               !.RunningContainers = UnmarshalContainers(@, d.runningcontainer)]

----------------------------------------------------------------------------
(* addContainersToPodInfo, KubePodInfoToPodInfo, PodInfoToAnnotation *)

\* lines 83-91 for one container c of the live spec
AddOneContainer(containers, c) ==
  LET cont == IF c.Name \in Keys(containers) THEN containers[c.Name]
              ELSE NewContainerInfo
      contF == FillContainerInfo(cont)
      withKube == [contF EXCEPT !.KubeRequests = CopyQuantities(@, c.Requests)]
  IN [n \in DOMAIN containers \cup {c.Name} |->
        IF n = c.Name THEN withKube ELSE containers[n]]

\* lines 82-92: the loop over the live spec's containers, in order
RECURSIVE AddContainers(_, _)
AddContainers(containers, conts) ==
  IF conts = <<>> THEN containers
  ELSE AddContainers(AddOneContainer(containers, Head(conts)), Tail(conts))

\* lines 95-100 for one container of the map
InvalidateKeepDevRequests(cont) ==
  [cont EXCEPT !.AllocateFrom = EmptyMap]

InvalidateContainer(cont) ==
  [cont EXCEPT !.AllocateFrom = EmptyMap,
               !.DevRequests = [k \in Keys(cont.Requests) |-> cont.Requests[k]]]

\* lines 81-103; a write to a nil containers map panics
AddContainersToPodInfo(containers, conts, invalidateExistingAnnotations) ==
  IF containers = NilMap /\ conts # <<>> THEN [status |-> "panic", m |-> NilMap]
  ELSE LET added == IF containers = NilMap THEN NilMap ELSE AddContainers(containers, conts) IN
       [status |-> "ok",
        m |-> IF invalidateExistingAnnotations /\ added # NilMap
              THEN [n \in DOMAIN added |-> InvalidateContainer(added[n])]
              ELSE added]

PodOk(m) == [status |-> "ok", m |-> m]
PodErr == [status |-> "err", m |-> NilPodInfo]
PodPanic == [status |-> "panic", m |-> NilPodInfo]

\* lines 107-117
DecodePodAnnotationLenient(pod) ==
  CASE pod.anns = "nil" -> PodOk(NewPodInfo)
    [] pod.ann.t = "absent" -> PodOk(NewPodInfo)
    [] pod.ann.t = "malformed" -> PodOk(NewPodInfo)
    [] OTHER -> PodOk(UnmarshalPodInfo(NewPodInfo, pod.ann.d))

DecodePodAnnotation(pod) ==
  CASE pod.anns = "nil" -> PodOk(NewPodInfo)
    [] pod.ann.t = "absent" -> PodOk(NewPodInfo)
    [] pod.ann.t = "malformed" -> PodErr
    [] OTHER -> PodOk(UnmarshalPodInfo(NewPodInfo, pod.ann.d))

\* line 118
SetPodName(podInfo, pod) == [podInfo EXCEPT !.Name = pod.name]

\* lines 122-124
ClearNodeNameAlways(podInfo, invalidateExistingAnnotations) ==
  [podInfo EXCEPT !.NodeName = ""]

ClearNodeName(podInfo, invalidateExistingAnnotations) ==
  IF invalidateExistingAnnotations THEN [podInfo EXCEPT !.NodeName = ""] ELSE podInfo

\* lines 106-127
KubePodInfoToPodInfo(pod, invalidateExistingAnnotations) ==
  LET dec == DecodePodAnnotation(pod) IN
  IF dec.status # "ok" THEN dec
  ELSE LET named == SetPodName(dec.m, pod)
           ini == AddContainersToPodInfo(named.InitContainers, pod.initContainers,
                                         invalidateExistingAnnotations)
           run == AddContainersToPodInfo(named.RunningContainers, pod.containers,
                                         invalidateExistingAnnotations)
       IN IF ini.status = "panic" \/ run.status = "panic" THEN PodPanic
          ELSE PodOk(ClearNodeName([named EXCEPT !.InitContainers = ini.m,
                                                 !.RunningContainers = run.m],
                                   invalidateExistingAnnotations))

\* lines 129-141
PodInfoToAnnotation(meta, podInfo, marshalErr) ==
  IF marshalErr THEN [status |-> "err", meta |-> meta]
  ELSE [status |-> "ok", meta |-> SetDeviceAnnotation(meta, MarshalPodInfo(podInfo))]

----------------------------------------------------------------------------
(* Pod side: value sets *)

PodName == "p1"

PodResNames == {"gpu"}

PodLists == MapsOver(PodResNames, 1..MaxVal)

Locations == MapsOver(PodResNames, {"dev0"})

\* container documents a writer may have left for a container of the live spec
\* (a writer may also have left a "kuberequests" key, which no field decodes)
ContainerDocs ==
  [requests : {MarshalMap(m) : m \in PodLists},
   devrequests : {MarshalMap(m) : m \in PodLists},
   allocatefrom : {MarshalMap(m) : m \in Locations},
   kuberequests : {FieldAbsent}]
  \cup [requests : {MarshalMap(m) : m \in PodLists},
        devrequests : {FieldAbsent},
        allocatefrom : {FieldAbsent},
        kuberequests : {FieldMap([k \in {"mem"} |-> 1])}]

\* documents of an init container, and of a container no longer in the spec
InitContainerDocs ==
  {d \in ContainerDocs : d.devrequests = FieldAbsent /\ d.kuberequests = FieldAbsent}

StaleContainerDocs ==
  {d \in ContainerDocs :
     /\ d.requests \in {FieldAbsent, FieldMap([k \in {"gpu"} |-> 1])}
     /\ d.devrequests = FieldMap([k \in {"gpu"} |-> MaxVal])
     /\ d.allocatefrom # FieldAbsent
     /\ d.kuberequests = FieldAbsent}

InitContainerFields ==
  {FieldAbsent, FieldNull} \cup {FieldMap([c \in {"i1"} |-> d]) : d \in InitContainerDocs}

RunningContainerFields ==
  {FieldAbsent, FieldNull}
  \cup {FieldMap([c \in {"c1"} |-> d]) : d \in ContainerDocs}
  \cup {FieldMap([c \in {"c0"} |-> d]) : d \in StaleContainerDocs}
  \cup {FieldMap([c \in {"c0", "c1"} |-> IF c = "c1" THEN d ELSE e]) :
          d \in ContainerDocs, e \in StaleContainerDocs}

PodDocs ==
  [podname : {"", "p2"}, nodename : {"", "n1"},
   initcontainer : InitContainerFields, runningcontainer : RunningContainerFields]

PodAnnVals == {AnnAbsent, AnnMalformed} \cup {AnnDoc(d) : d \in PodDocs}

\* Resources.Requests of a live container, in thousandths
RequestLists == MapsOver({"gpu"}, {500, 2000})

\* the live spec: at most one init container, one running container
PodSpecs ==
  [initContainers : {<<>>} \cup {<<[Name |-> "i1", Requests |-> [k \in {"gpu"} |-> 2000]]>>},
   containers : {<<[Name |-> "c1", Requests |-> r]>> : r \in RequestLists}]

\* models the scheduler built itself rather than read from this pod
BuiltPodInfos ==
  {[NewPodInfo EXCEPT !.Name = "p2"],
   [NewPodInfo EXCEPT !.Name = PodName, !.NodeName = "n1",
      !.RunningContainers =
         [c \in {"c1"} |-> [NewContainerInfo EXCEPT
                              !.KubeRequests = [k \in {"gpu"} |-> 1],
                              !.Requests = [k \in {"gpu"} |-> 1],
                              !.DevRequests = [k \in {"gpu"} |-> 1],
                              !.AllocateFrom = [k \in {"gpu"} |-> "dev0"]]]]}

NoPodCall == [op |-> "none", inv |-> FALSE, status |-> "none", m |-> NilPodInfo]

PodCall(op, inv, r) == [op |-> op, inv |-> inv, status |-> r.status, m |-> r.m]

NoPodEnc == [m |-> NilPodInfo, from |-> "none", inv |-> FALSE]

PodIdle ==
  [name |-> PodName, anns |-> "nil", ann |-> AnnAbsent, other |-> Unset,
   labels |-> "l0", initContainers |-> <<>>, containers |-> <<>>]

----------------------------------------------------------------------------
(* Pod side: the callers *)

PodRunning == scn = "pod" /\ pcall.status # "panic"

\* the scheduler reads the pod, claiming it afresh when invalidate is set
KubePodInfoToPodInfoCall ==
  /\ PodRunning
  /\ \E invalidate \in BOOLEAN :
       pcall' = PodCall("KubePodInfoToPodInfo", invalidate,
                        KubePodInfoToPodInfo(kpod, invalidate))
  /\ UNCHANGED <<scn, nodeVars, storeVars, kpod, penc>>

\* the scheduler writes the model it just read back into the pod's metadata
PodInfoToAnnotationResultCall ==
  /\ PodRunning
  /\ pcall.op = "KubePodInfoToPodInfo" /\ pcall.status = "ok"
  /\ \E marshalErr \in BOOLEAN :
       LET r == PodInfoToAnnotation(kpod, pcall.m, marshalErr) IN
       /\ kpod' = r.meta
       /\ penc' = IF r.status = "ok"
                  THEN [m |-> pcall.m, from |-> "result", inv |-> pcall.inv] ELSE penc
       /\ pcall' = PodCall("PodInfoToAnnotation", FALSE,
                           IF r.status = "ok" THEN PodOk(pcall.m) ELSE PodErr)
  /\ UNCHANGED <<scn, nodeVars, storeVars>>

\* the scheduler writes a model it built or changed itself: a node assigned
\* to the model just read, or a model made elsewhere
PodInfoToAnnotationBuiltCall ==
  /\ PodRunning
  /\ \E podInfo \in BuiltPodInfos \cup
        (IF pcall.op = "KubePodInfoToPodInfo" /\ pcall.status = "ok"
         THEN {[pcall.m EXCEPT !.NodeName = "n2"]} ELSE {}),
        marshalErr \in BOOLEAN :
       LET r == PodInfoToAnnotation(kpod, podInfo, marshalErr) IN
       /\ kpod' = r.meta
       /\ penc' = IF r.status = "ok"
                  THEN [m |-> podInfo, from |-> "built", inv |-> FALSE] ELSE penc
       /\ pcall' = PodCall("PodInfoToAnnotation", FALSE,
                           IF r.status = "ok" THEN PodOk(podInfo) ELSE PodErr)
  /\ UNCHANGED <<scn, nodeVars, storeVars>>

----------------------------------------------------------------------------
(* Remote objects and the patch builder *)

\* writes of the other writers in one behaviour
MaxWrites == 2

\* The parts of a kubev1.Node / kubev1.Pod the write-back operations can tell
\* apart: identity, resource version, two annotation keys ("dev" is
\* "KubeDevice/DeviceInfo", "other" any other key), the labels, one spec
\* field, one status field.
ObjFields == {"labels", "spec", "st"}

AnnKeys == {"dev", "other"}

\* the object carries no annotation: json.Marshal leaves the annotations
\* field out of the document (ObjectMeta declares it omitempty)
NoAnnotations(obj) == \A k \in AnnKeys : obj.ann[k] = Unset

\* strategicpatch.CreateTwoWayMergePatch(old, new): the fields and annotation
\* keys whose value in new differs from old, with new's value (Unset: delete).
\* When old carries annotations and the document of new has no annotations
\* field, the patch is {"metadata":{"annotations":null}}: it names the map as
\* a whole, that is every key, whatever old held.
DiffKeys(old, new) ==
  IF NoAnnotations(new) /\ ~NoAnnotations(old) THEN AnnKeys
  ELSE {k \in AnnKeys : new.ann[k] # old.ann[k]}

DiffFields(old, new) == {f \in ObjFields : new[f] # old[f]}

\* no patch document (the nil []byte returned with an error)
NoPatch == [ann |-> EmptyMap, fields |-> EmptyMap]

\* what may go wrong while the patch is built: json.Marshal of old (line
\* 146), json.Marshal of new (line 151), CreateTwoWayMergePatch (line 156)
PatchFaults == {"none", "marshal old", "marshal new", "create patch"}

\* lines 145-161: (patch bytes, error); the first failing step returns its
\* error and no patch
GetPatchBytes(old, new, fault) ==
  CASE fault = "marshal old" -> [err |-> "marshal old", patch |-> NoPatch]
    [] fault = "marshal new" -> [err |-> "marshal new", patch |-> NoPatch]
    [] fault = "create patch" -> [err |-> "create patch", patch |-> NoPatch]
    [] OTHER ->
         [err |-> "none",
          patch |-> [ann |-> [k \in DiffKeys(old, new) |-> new.ann[k]],
                     fields |-> [f \in DiffFields(old, new) |-> new[f]]]]

\* The store's strategic merge of a patch into the live object.  A patch of
\* the default sub-resource changes metadata and spec, a patch of "status"
\* changes the status.  A patch naming every annotation key with Unset is
\* the null annotations map: the live object loses all its annotations.
PatchTargets(subresource) ==
  IF subresource = "status" THEN {"st"} ELSE {"labels", "spec"}

ApplyPatch(obj, patch, subresource) ==
  LET anns == IF subresource = "status" THEN obj.ann
              ELSE [k \in AnnKeys |->
                      IF k \in DOMAIN patch.ann THEN patch.ann[k] ELSE obj.ann[k]]
      merged == [f \in DOMAIN obj |->
                   CASE f = "ann" -> anns
                     [] f \in DOMAIN patch.fields \cap PatchTargets(subresource) ->
                          patch.fields[f]
                     [] OTHER -> obj[f]]
  IN IF merged = obj THEN obj ELSE [merged EXCEPT !.rv = obj.rv + 1]

\* the store's validation: a pod's spec field (its placement) cannot change
StoreAccepts(cur, next) == cur.kind = "pod" => next.spec = cur.spec

\* the store's answer to Patch: the updated object, or an error with the
\* live object untouched
StorePatch(cur, patch, subresource, fails) ==
  LET next == ApplyPatch(cur, patch, subresource) IN
  IF fails \/ ~StoreAccepts(cur, next) THEN [ok |-> FALSE, obj |-> cur]
  ELSE [ok |-> TRUE, obj |-> next]

\* the store's answer to Update: optimistic concurrency on the resource
\* version, then validation; the status of a pod is not updated this way
StoreUpdate(cur, obj, fails) ==
  LET next == [obj EXCEPT !.st = cur.st] IN
  IF fails \/ obj.rv # cur.rv \/ ~StoreAccepts(cur, next) THEN [ok |-> FALSE, obj |-> cur]
  ELSE [ok |-> TRUE, obj |-> IF next = cur THEN cur ELSE [next EXCEPT !.rv = cur.rv + 1]]

\* line 213
IdentityMatchesNameOnly(newPod, oldPod) == ~(newPod.name # oldPod.name)

IdentityMatches(newPod, oldPod) ==
  ~((newPod.name # oldPod.name) \/ (newPod.ns # oldPod.ns))

\* lines 217-218: a clone of the live pod with newPod's annotations
ModifiedPodFullUpdate(oldPod, newPod) == newPod

ModifiedPodNewAtLiveVersion(oldPod, newPod) ==
  [newPod EXCEPT !.rv = oldPod.rv, !.name = oldPod.name, !.ns = oldPod.ns]

ModifiedPod(oldPod, newPod) == [oldPod EXCEPT !.ann = newPod.ann]

\* PatchNodeMetadata, lines 170 and 178: the sub-resources patched, in order
NodePatchSubresourcesStatusFirst == <<"status", "">>

NodePatchSubresources == <<"", "status">>

\* lines 171-175: an error of the first patch is returned, else the status
\* patch follows
AfterFirstPatchAlwaysStatus(ok) == "status"

AfterFirstPatch(ok) == IF ok THEN "status" ELSE "done"

\* lines 179-186: the operation returns after the status patch, error or not
AfterStatusPatchRetry(ok) == IF ok THEN "done" ELSE "status"

AfterStatusPatch(ok) == "done"

----------------------------------------------------------------------------
(* Store side: value sets *)

NoObj == [nil |-> TRUE]

LiveObject(kind, dev, other) ==
  [kind |-> kind, name |-> "o1", ns |-> "ns1", rv |-> 1,
   ann |-> [k \in AnnKeys |-> IF k = "dev" THEN dev ELSE other],
   labels |-> "l0", spec |-> "s0", st |-> "t0"]

\* the objects the caller may pass as new: old with the device annotation
\* rewritten and possibly another key, the spec field or the status changed
NewObjects(old) ==
  {[old EXCEPT !.ann = [k \in AnnKeys |-> IF k = "dev" THEN d ELSE o],
               !.labels = l, !.spec = sp, !.st = st] :
     d \in {"d2", Unset}, o \in {old.ann["other"], "y"},
     l \in {old.labels, "l1"}, sp \in {old.spec, "s1"}, st \in {old.st, "t1"}}

\* the same under the identity the caller gives newPod
Identities == {<<"o1", "ns1">>, <<"o2", "ns1">>, <<"o1", "ns2">>}

\* what another writer may set: field or annotation key, and value
OtherWrites ==
  {<<"labels", "l9">>, <<"spec", "s9">>, <<"st", "t9">>,
   <<"other", "z">>, <<"other", Unset>>, <<"dev", "d9">>}

WbIdle(old) ==
  [op |-> "none", pc |-> "idle", old |-> old, new |-> NoObj,
   patch |-> NoPatch, fetched |-> NoObj, submitted |-> NoObj,
   err |-> "none", obj |-> NoObj, calls |-> <<>>]

FieldOf(obj, f) == IF f \in AnnKeys THEN obj.ann[f] ELSE obj[f]

----------------------------------------------------------------------------
(* Store side: the write-back operations and the other writers *)

\* another writer of the same object changes one field or annotation key
OtherWriter ==
  /\ scn = "store"
  /\ nwrites < MaxWrites
  /\ \E w \in OtherWrites :
       /\ FieldOf(remote, w[1]) # w[2]
       /\ remote' = IF w[1] \in AnnKeys
                    THEN [remote EXCEPT !.ann[w[1]] = w[2], !.rv = @ + 1]
                    ELSE [remote EXCEPT ![w[1]] = w[2], !.rv = @ + 1]
       /\ wrote' = [f \in DOMAIN wrote \cup {w[1]} |-> IF f = w[1] THEN w[2] ELSE wrote[f]]
  /\ nwrites' = nwrites + 1
  /\ UNCHANGED <<scn, nodeVars, podVars, wb>>

\* PatchNodeMetadata, lines 164-175: the patch is built (an error of
\* GetPatchBytes is returned before any store call) and applied to the
\* default sub-resource
PatchNodeMetadataFirst ==
  /\ scn = "store" /\ wb.pc = "idle" /\ remote.kind = "node"
  /\ \E newNode \in NewObjects(wb.old), fault \in PatchFaults, fails \in BOOLEAN :
       LET built == GetPatchBytes(wb.old, newNode, fault)
           patchBytes == built.patch
           sub == NodePatchSubresources[1]
           r == StorePatch(remote, patchBytes, sub, fails)
       IN IF built.err # "none"
          THEN /\ ~fails
               /\ remote' = remote
               /\ wb' = [wb EXCEPT !.op = "PatchNodeMetadata", !.new = newNode,
                                   !.pc = "done", !.err = built.err]
          ELSE /\ remote' = r.obj
               /\ wb' = [wb EXCEPT !.op = "PatchNodeMetadata", !.new = newNode,
                                   !.patch = patchBytes,
                                   !.calls = Append(@, <<"patch", sub, patchBytes>>),
                                   !.pc = AfterFirstPatch(r.ok),
                                   !.err = IF r.ok THEN "none" ELSE "metadata"]
  /\ UNCHANGED <<scn, nodeVars, podVars, wrote, nwrites>>

\* PatchNodeMetadata, lines 176-186: the same patch applied to "status"
PatchNodeMetadataStatus ==
  /\ scn = "store" /\ wb.op = "PatchNodeMetadata" /\ wb.pc = "status"
  /\ \E fails \in BOOLEAN :
       LET sub == NodePatchSubresources[2]
           r == StorePatch(remote, wb.patch, sub, fails)
       IN /\ remote' = r.obj
          /\ wb' = [wb EXCEPT !.calls = Append(@, <<"patch", sub, wb.patch>>),
                              !.pc = AfterStatusPatch(r.ok),
                              !.err = IF r.ok THEN "none" ELSE "status",
                              !.obj = IF r.ok THEN r.obj ELSE NoObj]
  /\ UNCHANGED <<scn, nodeVars, podVars, wrote, nwrites>>

\* PatchPodMetadata, lines 189-202: an error of GetPatchBytes is returned
\* before any store call
PatchPodMetadataCall ==
  /\ scn = "store" /\ wb.pc = "idle" /\ remote.kind = "pod"
  /\ \E newPod \in NewObjects(wb.old), fault \in PatchFaults, fails \in BOOLEAN :
       LET built == GetPatchBytes(wb.old, newPod, fault)
           patchBytes == built.patch
           r == StorePatch(remote, patchBytes, "", fails)
       IN IF built.err # "none"
          THEN /\ ~fails
               /\ remote' = remote
               /\ wb' = [wb EXCEPT !.op = "PatchPodMetadata", !.new = newPod,
                                   !.pc = "done", !.err = built.err]
          ELSE /\ remote' = r.obj
               /\ wb' = [wb EXCEPT !.op = "PatchPodMetadata", !.new = newPod,
                                   !.patch = patchBytes,
                                   !.calls = Append(@, <<"patch", "", patchBytes>>),
                                   !.pc = "done",
                                   !.err = IF r.ok THEN "none" ELSE "metadata",
                                   !.obj = IF r.ok THEN r.obj ELSE NoObj]
  /\ UNCHANGED <<scn, nodeVars, podVars, wrote, nwrites>>

\* UpdatePodMetadata, lines 208-215: the live pod is fetched and its identity
\* compared with newPod's.  The answer is the store's live object, under
\* whatever name and namespace it carries.
UpdatePodMetadataGet ==
  /\ scn = "store" /\ wb.pc = "idle" /\ remote.kind = "pod"
  /\ \E n \in NewObjects(wb.old), id \in Identities, fails \in BOOLEAN :
       LET newPod == [n EXCEPT !.name = id[1], !.ns = id[2]]
           oldPod == remote
       IN wb' = [wb EXCEPT !.op = "UpdatePodMetadata", !.new = newPod,
                           !.calls = Append(@, <<"get">>),
                           !.fetched = IF fails THEN NoObj ELSE oldPod,
                           !.pc = IF fails \/ ~IdentityMatches(newPod, oldPod)
                                  THEN "done" ELSE "update",
                           !.err = IF fails THEN "get"
                                   ELSE IF ~IdentityMatches(newPod, oldPod)
                                   THEN "mismatch" ELSE "none"]
  /\ UNCHANGED <<scn, nodeVars, podVars, remote, wrote, nwrites>>

\* UpdatePodMetadata, lines 216-221: the clone with the new annotations is
\* submitted as a full update
UpdatePodMetadataUpdate ==
  /\ scn = "store" /\ wb.op = "UpdatePodMetadata" /\ wb.pc = "update"
  /\ \E fails \in BOOLEAN :
       LET modifiedPod == ModifiedPod(wb.fetched, wb.new)
           r == StoreUpdate(remote, modifiedPod, fails)
       IN /\ remote' = r.obj
          /\ wb' = [wb EXCEPT !.calls = Append(@, <<"update">>),
                              !.submitted = modifiedPod,
                              !.pc = "done",
                              !.err = IF r.ok THEN "none" ELSE "update",
                              !.obj = IF r.ok THEN r.obj ELSE NoObj]
  /\ UNCHANGED <<scn, nodeVars, podVars, wrote, nwrites>>

----------------------------------------------------------------------------
(* Initial states and specifications *)

NodeDefaults ==
  /\ knode = NodeIdle
  /\ existing = NilNodeInfo
  /\ nenc = NilNodeInfo
  /\ ncall = NoNodeCall

PodDefaults ==
  /\ kpod = PodIdle
  /\ penc = NoPodEnc
  /\ pcall = NoPodCall

StoreDefaults ==
  /\ remote = LiveObject("pod", Unset, Unset)
  /\ wb = WbIdle(LiveObject("pod", Unset, Unset))
  /\ wrote = EmptyMap
  /\ nwrites = 0

InitScheduler ==
  /\ scn = "scheduler"
  /\ PodDefaults
  /\ StoreDefaults
  /\ \E s \in NodeStatuses : knode = [NodeIdle EXCEPT !.cap = s.cap, !.alloc = s.alloc]
  /\ existing = NilNodeInfo
  /\ nenc = NilNodeInfo
  /\ ncall = NoNodeCall

InitAdvertiser ==
  /\ scn = "advertiser"
  /\ PodDefaults
  /\ StoreDefaults
  /\ \E sh \in MetaShapes : knode = [NodeIdle EXCEPT !.anns = sh.anns, !.other = sh.other]
  /\ existing = NilNodeInfo
  /\ nenc = NilNodeInfo
  /\ ncall = NoNodeCall

InitNode == InitScheduler \/ InitAdvertiser

NextNode ==
  \/ NodeExternalWrite
  \/ AnnotationToNodeInfoCall
  \/ KubeNodeToNodeInfoCall
  \/ NodeInfoToAnnotationCall
  \/ AnnotationToNodeInfoNilCall

InitPod ==
  /\ scn = "pod"
  /\ NodeDefaults
  /\ StoreDefaults
  /\ \E a \in PodAnnVals, sp \in PodSpecs, sh \in MetaShapes :
       /\ a # AnnAbsent => sh.anns = "made"
       /\ kpod = [PodIdle EXCEPT !.anns = sh.anns, !.ann = a, !.other = sh.other,
                                !.initContainers = sp.initContainers,
                                !.containers = sp.containers]
  /\ penc = NoPodEnc
  /\ pcall = NoPodCall

NextPod ==
  \/ KubePodInfoToPodInfoCall
  \/ PodInfoToAnnotationResultCall
  \/ PodInfoToAnnotationBuiltCall

\* the scheduler has read oldObject; the store still holds what it read
InitStore ==
  /\ scn = "store"
  /\ NodeDefaults
  /\ PodDefaults
  /\ \E kind \in {"node", "pod"}, dev \in {Unset, "d1"}, other \in {Unset, "x"} :
       /\ remote = LiveObject(kind, dev, other)
       /\ wb = WbIdle(LiveObject(kind, dev, other))
  /\ wrote = EmptyMap
  /\ nwrites = 0

NextStore ==
  \/ OtherWriter
  \/ PatchNodeMetadataFirst
  \/ PatchNodeMetadataStatus
  \/ PatchPodMetadataCall
  \/ UpdatePodMetadataGet
  \/ UpdatePodMetadataUpdate

vars == <<scn, knode, existing, nenc, ncall, kpod, penc, pcall, remote, wb, wrote, nwrites>>

Init == InitNode \/ InitPod \/ InitStore

Next == NextNode \/ NextPod \/ NextStore

Spec == Init /\ [][Next]_vars

SpecNode == InitNode /\ [][NextNode]_vars

SpecPod == InitPod /\ [][NextPod]_vars

SpecStore == InitStore /\ [][NextStore]_vars

\* the two codecs together: the advertiser's write and read-back, and the pod side
SpecCodec ==
  (InitAdvertiser \/ InitPod)
  /\ [][NodeInfoToAnnotationCall \/ AnnotationToNodeInfoNilCall \/ NextPod]_vars

\* the readers alone: the scheduler's node reads over annotations other
\* writers leave, and its pod reads
NextReaders ==
  \/ NodeExternalWrite
  \/ AnnotationToNodeInfoCall
  \/ KubeNodeToNodeInfoCall
  \/ KubePodInfoToPodInfoCall

SpecReaders == (InitScheduler \/ InitPod) /\ [][NextReaders]_vars

----------------------------------------------------------------------------
(* Helpers of the properties *)

\* two maps hold the same entries (a nil map holds none)
SameEntries(a, b) == Keys(a) = Keys(b) /\ \A k \in Keys(a) : a[k] = b[k]

Norm(m) == IF m = NilMap THEN EmptyMap ELSE m

NormContainers(cm) ==
  [c \in Keys(cm) |-> [f \in DOMAIN cm[c] |-> Norm(cm[c][f])]]

\* equality of two PodInfo up to nil-versus-empty maps
PodInfoEq(a, b) ==
  /\ a.Name = b.Name
  /\ a.NodeName = b.NodeName
  /\ NormContainers(a.InitContainers) = NormContainers(b.InitContainers)
  /\ NormContainers(a.RunningContainers) = NormContainers(b.RunningContainers)

\* the Used map written in the node's annotation, as the decoder sees it
AnnotatedUsed ==
  IF knode.ann.t = "doc" /\ knode.ann.d.used.t = "map" THEN knode.ann.d.used.m
  ELSE EmptyMap

\* the Used map of the existingNodeInfo passed to the last node call
PassedUsed == IF ncall.in = NilNodeInfo THEN EmptyMap ELSE ncall.in.Used

NodeReadOk ==
  /\ ncall.op \in {"AnnotationToNodeInfo", "KubeNodeToNodeInfo"}
  /\ ncall.status = "ok"

PodReadOk == pcall.op = "KubePodInfoToPodInfo" /\ pcall.status = "ok"

\* the container documents of the pod's annotation, by map
AnnotatedContainers(field) ==
  IF kpod.ann.t = "doc" /\ kpod.ann.d[field].t = "map" THEN kpod.ann.d[field].m
  ELSE EmptyMap

\* the live spec's requests of a container, as int64 values
LiveRequests(c) == [k \in DOMAIN c.Requests |-> QuantityValue(c.Requests[k])]

SeqRange(q) == {q[i] : i \in 1..Len(q)}

----------------------------------------------------------------------------
(* C1 *)

\* C1: in every step in which the scheduler's read of the node succeeds with
\* the previous result as existingNodeInfo, every key of the cached Used is a
\* key of the new result's Used and keeps the cached value, whatever the
\* annotation had become.
C1_UsedNeverLost ==
  [][(/\ scn = "scheduler"
      /\ ncall'.op \in {"AnnotationToNodeInfo", "KubeNodeToNodeInfo"}
      /\ ncall'.status = "ok"
      /\ ncall'.in = existing
      /\ existing # NilNodeInfo)
     => /\ Keys(existing.Used) \subseteq Keys(existing'.Used)
        /\ \A k \in Keys(existing.Used) : existing'.Used[k] = existing.Used[k]]_vars

\* a sync succeeded over an annotation that lacks one cached key and
\* disagrees with the cache on another
C1_Witness ==
  /\ scn = "scheduler"
  /\ NodeReadOk
  /\ ncall.op = "KubeNodeToNodeInfo"
  /\ existing = ncall.m
  /\ \E k \in Keys(PassedUsed) : k \notin Keys(AnnotatedUsed)
  /\ \E k \in Keys(PassedUsed) \cap Keys(AnnotatedUsed) : PassedUsed[k] # AnnotatedUsed[k]

----------------------------------------------------------------------------
(* C2 *)

\* C2: after a node read that returns a model, every key of the passed
\* existingNodeInfo.Used is in the result with the existing value, every key
\* only in the annotation's Used is in the result with the annotation's
\* value, and the result has no other key.
C2_MergeMonotone ==
  NodeReadOk =>
    /\ \A k \in Keys(PassedUsed) :
         k \in Keys(ncall.m.Used) /\ ncall.m.Used[k] = PassedUsed[k]
    /\ \A k \in Keys(AnnotatedUsed) \ Keys(PassedUsed) :
         k \in Keys(ncall.m.Used) /\ ncall.m.Used[k] = AnnotatedUsed[k]
    /\ Keys(ncall.m.Used) = Keys(PassedUsed) \cup Keys(AnnotatedUsed)

\* a merge with a collision on different values and a key only in the annotation
C2_Witness ==
  /\ NodeReadOk
  /\ \E k \in Keys(PassedUsed) \cap Keys(AnnotatedUsed) : PassedUsed[k] # AnnotatedUsed[k]
  /\ Keys(AnnotatedUsed) \ Keys(PassedUsed) # {}

----------------------------------------------------------------------------
(* C3 *)

\* the advertiser read back, with no existingNodeInfo, what it wrote
NodeRoundTrip ==
  /\ scn = "advertiser"
  /\ ncall.op = "AnnotationToNodeInfo"
  /\ nenc # NilNodeInfo

\* the scheduler read, without invalidation, the pod whose annotation it wrote
PodRoundTrip ==
  /\ pcall.op = "KubePodInfoToPodInfo"
  /\ ~pcall.inv
  /\ penc.m # NilPodInfo

\* a NodeInfo with a name and every map made
WellFormedNodeInfo(m) == ~IsBlank(m.Name) /\ m.Used # NilMap

\* C3 as stated: decoding what was encoded from a well-formed model returns
\* a model equal to it, for NodeInfo and for PodInfo.
C3_RoundTripEqual ==
  /\ (NodeRoundTrip /\ WellFormedNodeInfo(nenc)) => (ncall.status = "ok" /\ ncall.m = nenc)
  /\ PodRoundTrip => (pcall.status = "ok" /\ PodInfoEq(pcall.m, penc.m))

PrivateFieldsKept(got, put) ==
  /\ SameEntries(got.Requests, put.Requests)
  /\ SameEntries(got.DevRequests, put.DevRequests)
  /\ SameEntries(got.AllocateFrom, put.AllocateFrom)

ContainersKept(got, put, live) ==
  /\ Keys(got) = Keys(put) \cup {c.Name : c \in SeqRange(live)}
  /\ \A n \in Keys(put) : PrivateFieldsKept(got[n], put[n])
  /\ \A c \in SeqRange(live) : got[c.Name].KubeRequests = LiveRequests(c)
  /\ \A n \in Keys(put) \ {c.Name : c \in SeqRange(live)} :
       Keys(got[n].KubeRequests) = {}

\* C3 amended: the round trip returns the serialized fields.  For a NodeInfo
\* with a non-blank Name: Name and Used as written, KubeCap and KubeAlloc
\* empty.  For a PodInfo: NodeName and every written container's Requests,
\* DevRequests and AllocateFrom as written; Name is the pod's name,
\* KubeRequests is the live spec's (empty for a container not in the spec)
\* and the containers are the written ones together with the live spec's.
C3_RoundTripSerialized ==
  /\ (NodeRoundTrip /\ ~IsBlank(nenc.Name)) =>
       /\ ncall.status = "ok"
       /\ ncall.m.Name = nenc.Name
       /\ ncall.m.Used # NilMap /\ SameEntries(ncall.m.Used, nenc.Used)
       /\ ncall.m.KubeCap = EmptyMap /\ ncall.m.KubeAlloc = EmptyMap
  /\ PodRoundTrip =>
       /\ pcall.status = "ok"
       /\ pcall.m.Name = kpod.name
       /\ pcall.m.NodeName = penc.m.NodeName
       /\ ContainersKept(pcall.m.InitContainers, penc.m.InitContainers, kpod.initContainers)
       /\ ContainersKept(pcall.m.RunningContainers, penc.m.RunningContainers, kpod.containers)

\* a well-formed NodeInfo with usage and capacity was written and read back
C3_Witness ==
  /\ NodeRoundTrip
  /\ WellFormedNodeInfo(nenc)
  /\ Keys(nenc.Used) = ResNames
  /\ Keys(nenc.KubeCap) # {}
  /\ ncall.status = "ok"

----------------------------------------------------------------------------
(* C4 *)

Invalidated(cm) ==
  \A n \in Keys(cm) :
    /\ Keys(cm[n].AllocateFrom) = {}
    /\ SameEntries(cm[n].DevRequests, cm[n].Requests)

\* C4: after KubePodInfoToPodInfo with invalidation, every container of both
\* maps has an empty AllocateFrom and DevRequests equal to its Requests, and
\* NodeName is empty.
C4_Invalidation ==
  (PodReadOk /\ pcall.inv) =>
    /\ Invalidated(pcall.m.InitContainers)
    /\ Invalidated(pcall.m.RunningContainers)
    /\ pcall.m.NodeName = ""

\* the annotation carried an assignment: a node name, and a container with
\* an allocation and DevRequests different from its Requests
C4_Witness ==
  /\ PodReadOk /\ pcall.inv
  /\ kpod.ann.t = "doc" /\ kpod.ann.d.nodename # ""
  /\ \E n \in Keys(AnnotatedContainers("runningcontainer")) :
       LET d == AnnotatedContainers("runningcontainer")[n] IN
       /\ d.allocatefrom # FieldAbsent
       /\ d.requests # FieldAbsent
       /\ d.devrequests # d.requests
  /\ \E n \in Keys(pcall.m.RunningContainers) :
       Keys(pcall.m.RunningContainers[n].Requests) # {}

----------------------------------------------------------------------------
(* C5 *)

\* the annotation read was written from the result of an invalidating read
SecondInvalidation ==
  /\ pcall.op = "KubePodInfoToPodInfo"
  /\ pcall.inv
  /\ penc.from = "result" /\ penc.inv

\* C5: an invalidating read of the pod whose annotation holds the result of
\* an invalidating read returns that result again (up to nil-versus-empty maps).
C5_InvalidationIdempotent ==
  SecondInvalidation => (pcall.status = "ok" /\ PodInfoEq(pcall.m, penc.m))

\* the second invalidating read, of a pod with requests in both container maps
C5_Witness ==
  /\ SecondInvalidation
  /\ pcall.status = "ok"
  /\ \E n \in Keys(penc.m.RunningContainers) :
       Keys(penc.m.RunningContainers[n].Requests) # {}
  /\ \E n \in Keys(penc.m.InitContainers) :
       Keys(penc.m.InitContainers[n].Requests) # {}
  /\ "c0" \in Keys(penc.m.RunningContainers)

----------------------------------------------------------------------------
(* C6 *)

KubeRequestsFromSpec(cm, live) ==
  \A c \in SeqRange(live) :
    /\ c.Name \in Keys(cm)
    /\ cm[c.Name].KubeRequests = LiveRequests(c)
    /\ kpod.ann.t = "absent" =>
         cm[c.Name].Requests = EmptyMap /\ cm[c.Name].AllocateFrom = EmptyMap

\* C6: after KubePodInfoToPodInfo every container of the live spec has
\* KubeRequests equal to the spec's requests (as int64 values), whatever the
\* annotation held; with no annotation its Requests and AllocateFrom are empty.
C6_KubeRequestsOverwritten ==
  PodReadOk =>
    /\ KubeRequestsFromSpec(pcall.m.InitContainers, kpod.initContainers)
    /\ KubeRequestsFromSpec(pcall.m.RunningContainers, kpod.containers)

\* the annotation carried a kuberequests entry for a container whose live
\* spec requests something else
C6_Witness ==
  /\ PodReadOk
  /\ \E c \in SeqRange(kpod.containers) :
       /\ c.Name \in Keys(AnnotatedContainers("runningcontainer"))
       /\ AnnotatedContainers("runningcontainer")[c.Name].kuberequests # FieldAbsent
       /\ Keys(c.Requests) # {}
       /\ pcall.m.RunningContainers[c.Name].KubeRequests = [k \in {"gpu"} |-> 2]

----------------------------------------------------------------------------
(* C7 *)

PatchOps == {"PatchNodeMetadata", "PatchPodMetadata"}

\* the fields and annotation keys in which old and new differ
Diff(old, new) ==
  {f \in AnnKeys \cup ObjFields : FieldOf(new, f) # FieldOf(old, f)}

\* C7: once oldObject is read, whatever another writer last wrote to a field
\* or annotation key outside the diff of (old, new) is on the remote object
\* before, between and after the patch applications; and when old and new
\* differ only in annotations the patch names no other field.
C7_PatchKeepsOtherWrites ==
  wb.op \in PatchOps =>
    /\ \A f \in DOMAIN wrote \ Diff(wb.old, wb.new) : FieldOf(remote, f) = wrote[f]
    /\ Diff(wb.old, wb.new) \subseteq AnnKeys => DOMAIN wb.patch.fields = {}

----------------------------------------------------------------------------
(* C8 *)

UpdateSucceeded ==
  wb.op = "UpdatePodMetadata" /\ wb.pc = "done" /\ wb.err = "none"

\* C8 as stated: after a successful UpdatePodMetadata, what another writer
\* last wrote to a non-annotation field or to an annotation key other than
\* the device key is on the remote pod.
C8_UpdateKeepsOtherWrites ==
  UpdateSucceeded =>
    \A f \in DOMAIN wrote \ {"dev"} :
      (f \in AnnKeys => wrote[f] # Unset) => FieldOf(remote, f) = wrote[f]

\* C8 amended: after a successful UpdatePodMetadata, what another writer last
\* wrote to a non-annotation field is on the remote pod.  (The annotations
\* are replaced as a whole by newPod's: a key another writer set after the
\* scheduler's read is overwritten.)
C8_UpdateKeepsFieldWrites ==
  UpdateSucceeded =>
    \A f \in DOMAIN wrote \cap ObjFields : FieldOf(remote, f) = wrote[f]

\* the update succeeded after another writer had changed labels and status,
\* and newPod carried other labels than the live pod
C8_Witness ==
  /\ UpdateSucceeded
  /\ {"labels", "st"} \subseteq DOMAIN wrote
  /\ wb.submitted.labels = wrote["labels"]
  /\ wb.new.labels # wb.submitted.labels
  /\ remote.ann = wb.new.ann

----------------------------------------------------------------------------
(* C9 *)

\* C9: the object UpdatePodMetadata submits equals the fetched live pod in
\* every field but the annotations, and its annotations are newPod's.
C9_RestrictedUpdate ==
  wb.submitted # NoObj =>
    /\ \A f \in DOMAIN wb.submitted \ {"ann"} : wb.submitted[f] = wb.fetched[f]
    /\ wb.submitted.ann = wb.new.ann

\* a successful update whose newPod differed from the live pod in labels,
\* spec, status and annotations
C9_Witness ==
  /\ UpdateSucceeded
  /\ wb.new.labels # wb.fetched.labels
  /\ wb.new.spec # wb.fetched.spec
  /\ wb.new.st # wb.fetched.st
  /\ wb.new.rv # wb.fetched.rv
  /\ \A k \in AnnKeys : wb.new.ann[k] # wb.fetched.ann[k]

----------------------------------------------------------------------------
(* C10 *)

IdentityDiffers ==
  /\ wb.op = "UpdatePodMetadata"
  /\ wb.fetched # NoObj
  /\ (wb.new.name # wb.fetched.name \/ wb.new.ns # wb.fetched.ns)

\* C10: when newPod's name or namespace differs from the fetched pod's,
\* UpdatePodMetadata ends with the identity-mismatch error, the only store
\* call made is the Get, and the remote object carries only the other
\* writers' changes.
C10_IdentityCheck ==
  IdentityDiffers =>
    /\ wb.pc = "done" /\ wb.err = "mismatch" /\ wb.obj = NoObj
    /\ wb.calls = << <<"get">> >>
    /\ wb.submitted = NoObj
    /\ remote.rv = wb.old.rv + nwrites

\* newPod named the live pod's name in another namespace
C10_Witness ==
  /\ IdentityDiffers
  /\ wb.new.name = wb.fetched.name
  /\ wb.new.ann # wb.fetched.ann
  /\ nwrites > 0

----------------------------------------------------------------------------
(* C11 *)

\* the patch document GetPatchBytes computes from (old, new) at line 164
ExpectedPatch(old, new) == GetPatchBytes(old, new, "none").patch

\* C11: PatchNodeMetadata issues its Patch calls in the order default
\* sub-resource, then "status", both with the patch document of (old, new);
\* a call that succeeds has issued exactly these two, and a call that issued
\* none ended with the error of building the patch.
C11_TwoStepPatchOrder ==
  wb.op = "PatchNodeMetadata" =>
    LET P == ExpectedPatch(wb.old, wb.new) IN
    /\ Len(wb.calls) \in 0..2
    /\ Len(wb.calls) >= 1 => wb.calls[1] = <<"patch", "", P>>
    /\ Len(wb.calls) = 2 => wb.calls[2] = <<"patch", "status", P>>
    /\ Len(wb.calls) = 0 => (wb.pc = "done" /\ wb.err \in PatchFaults \ {"none"})
    /\ (wb.pc = "done" /\ wb.err = "none") => (Len(wb.calls) = 2 /\ wb.obj # NoObj)

\* a successful call whose patch named an annotation, the labels and the
\* status, with another writer active in between
C11_Witness ==
  /\ wb.op = "PatchNodeMetadata" /\ wb.pc = "done" /\ wb.err = "none"
  /\ {"dev", "labels", "st"} \subseteq Diff(wb.old, wb.new)
  /\ wb.obj.st = wb.new.st /\ wb.obj.labels = wb.new.labels
  /\ nwrites > 0

----------------------------------------------------------------------------
(* C12 *)

\* C12: when the status patch of PatchNodeMetadata fails the call ends with
\* the status error and no object, and the step leaves the remote node as the
\* first patch (and the other writers) made it; when the first patch fails
\* the call ends with the metadata error after that single call; a finished
\* call issues nothing more.
C12_PartialSuccess ==
  [][/\ (wb.op = "PatchNodeMetadata" /\ wb.pc = "status" /\ wb'.err = "status") =>
          /\ wb'.pc = "done" /\ wb'.obj = NoObj
          /\ remote' = remote
          /\ wb'.calls = Append(wb.calls, <<"patch", "status", wb.patch>>)
          /\ nwrites = 0 =>
               /\ \A k \in DOMAIN wb.patch.ann : remote'.ann[k] = wb.patch.ann[k]
               /\ "labels" \in DOMAIN wb.patch.fields =>
                    remote'.labels = wb.patch.fields["labels"]
     /\ (wb.pc = "idle" /\ wb'.op = "PatchNodeMetadata" /\ wb'.err = "metadata") =>
          /\ wb'.pc = "done" /\ wb'.obj = NoObj
          /\ remote' = remote
          /\ Len(wb'.calls) = 1
     /\ (wb.op = "PatchNodeMetadata" /\ wb.pc = "done") => wb' = wb]_vars

\* the status patch failed after the first patch had changed the device
\* annotation and the labels of the remote node
C12_Witness ==
  /\ wb.op = "PatchNodeMetadata" /\ wb.pc = "done" /\ wb.err = "status"
  /\ wb.obj = NoObj
  /\ Len(wb.calls) = 2
  /\ nwrites = 0
  /\ remote.ann["dev"] = wb.new.ann["dev"] /\ remote.ann["dev"] # wb.old.ann["dev"]
  /\ remote.labels = wb.new.labels /\ remote.labels # wb.old.labels
  /\ remote.st = wb.old.st /\ wb.new.st # wb.old.st

----------------------------------------------------------------------------
(* C13 *)

\* the step is a Patch or Update call of the write-back in progress
StoreWriteStep ==
  /\ Len(wb'.calls) = Len(wb.calls) + 1
  /\ wb'.calls[Len(wb'.calls)][1] \in {"patch", "update"}

\* the fields the call of this step writes
WrittenByStep ==
  LET c == wb'.calls[Len(wb'.calls)] IN
  IF c[1] = "update" THEN AnnKeys
  ELSE IF c[2] = "status" THEN PatchTargets("status")
  ELSE AnnKeys \cup PatchTargets("")

\* the fields in which another writer superseded the caller's read with a
\* value that is neither the one read nor the one the caller now writes
Superseded ==
  {f \in DOMAIN wrote \cap Diff(wb'.old, wb'.new) \cap WrittenByStep :
     /\ FieldOf(remote, f) = wrote[f]
     /\ wrote[f] # FieldOf(wb'.old, f)
     /\ wrote[f] # FieldOf(wb'.new, f)}

\* C13: a Patch or Update call computed against a read that another writer
\* has superseded in a field the call writes is rejected: the operation ends
\* with an error and the remote object keeps the other writer's value.
C13_StaleWriteRejected ==
  [][(StoreWriteStep /\ Superseded # {}) =>
       (wb'.err # "none" /\ remote' = remote)]_vars

----------------------------------------------------------------------------
(* C16 *)

CallKinds == {wb.calls[i][1] : i \in 1..Len(wb.calls)}

\* C16: PatchNodeMetadata issues at most two Patch calls, PatchPodMetadata
\* at most one (none when the patch cannot be built), UpdatePodMetadata one
\* Get and then at most one Update; an operation
\* that met an error is finished and issued nothing after the failing call.
C16_BoundedCalls ==
  /\ wb.op = "PatchNodeMetadata" => (Len(wb.calls) \in 0..2 /\ CallKinds \subseteq {"patch"})
  /\ wb.op = "PatchPodMetadata" =>
       (Len(wb.calls) \in 0..1 /\ CallKinds \subseteq {"patch"} /\ wb.pc = "done")
  /\ wb.op = "UpdatePodMetadata" =>
       /\ Len(wb.calls) \in 1..2
       /\ wb.calls[1] = <<"get">>
       /\ Len(wb.calls) = 2 => wb.calls[2] = <<"update">>
  /\ wb.op = "none" => wb.calls = <<>>
  /\ wb.err # "none" => wb.pc = "done"
  /\ wb.err \in PatchFaults \ {"none"} => (wb.op \in PatchOps /\ Len(wb.calls) = 0)
  /\ wb.err \in {"metadata", "get", "mismatch"} => Len(wb.calls) = 1
  /\ wb.err \in {"status", "update"} => Len(wb.calls) = 2
  /\ wb.pc = "done" =>
       Len(wb.calls) = (IF wb.err \in PatchFaults \ {"none"} THEN 0
                        ELSE IF wb.op = "PatchPodMetadata"
                                \/ wb.err \in {"metadata", "get", "mismatch"}
                        THEN 1 ELSE 2)

\* UpdatePodMetadata ended at a failing Update, its second store call, with
\* other writers active
C16_Witness ==
  /\ wb.op = "UpdatePodMetadata"
  /\ wb.pc = "done"
  /\ wb.err = "update"
  /\ wb.calls = << <<"get">>, <<"update">> >>
  /\ nwrites = MaxWrites

----------------------------------------------------------------------------
(* C14 *)

NodeReadOp == ncall.op \in {"AnnotationToNodeInfo", "KubeNodeToNodeInfo"}

PodReadOp == pcall.op = "KubePodInfoToPodInfo"

\* the object has no annotations map, or the map lacks the device key
NoDeviceAnnotation(meta) == meta.anns = "nil" \/ meta.ann.t = "absent"

NoPrivateState(cm) ==
  \A n \in Keys(cm) :
    /\ cm[n].Requests = EmptyMap
    /\ cm[n].DevRequests = EmptyMap
    /\ cm[n].AllocateFrom = EmptyMap

LiveNames(conts) == {c.Name : c \in SeqRange(conts)}

\* C14 as stated: a read of an object without the device annotation returns
\* no error and a model whose private fields are empty: Used empty for a
\* node, NodeName empty and no Requests or AllocateFrom for a pod.
C14_MissingAnnotationEmpty ==
  /\ (NodeReadOp /\ NoDeviceAnnotation(knode)) =>
       /\ ncall.status = "ok" /\ ncall.m # NilNodeInfo
       /\ ncall.m.Used = EmptyMap
  /\ (PodReadOp /\ NoDeviceAnnotation(kpod)) =>
       /\ pcall.status = "ok" /\ pcall.m # NilPodInfo
       /\ pcall.m.NodeName = ""
       /\ NoPrivateState(pcall.m.InitContainers)
       /\ NoPrivateState(pcall.m.RunningContainers)

\* C14 amended: a read of an object without the device annotation returns no
\* error and a model holding nothing but what the call itself supplies.  For
\* a node: Name is the node's name and Used holds exactly the entries of the
\* existingNodeInfo passed (none when no model is passed).  For a pod: Name
\* is the pod's name, NodeName is empty, the containers are those of the
\* live spec, each without Requests, DevRequests or AllocateFrom.
C14_MissingAnnotationFresh ==
  /\ (NodeReadOp /\ NoDeviceAnnotation(knode)) =>
       /\ ncall.status = "ok" /\ ncall.m # NilNodeInfo
       /\ ncall.m.Name = knode.name
       /\ ncall.m.Used # NilMap /\ SameEntries(ncall.m.Used, PassedUsed)
  /\ (PodReadOp /\ NoDeviceAnnotation(kpod)) =>
       /\ pcall.status = "ok" /\ pcall.m # NilPodInfo
       /\ pcall.m.Name = kpod.name
       /\ pcall.m.NodeName = ""
       /\ Keys(pcall.m.InitContainers) = LiveNames(kpod.initContainers)
       /\ Keys(pcall.m.RunningContainers) = LiveNames(kpod.containers)
       /\ NoPrivateState(pcall.m.InitContainers)
       /\ NoPrivateState(pcall.m.RunningContainers)

\* the node's annotation was removed after the scheduler had cached usage,
\* and the next read returned the cached usage
C14_Witness ==
  /\ NodeReadOp /\ ncall.status = "ok"
  /\ knode.anns = "made" /\ knode.ann.t = "absent"
  /\ Keys(PassedUsed) = ResNames
  /\ ncall.m.Used = PassedUsed

----------------------------------------------------------------------------
(* C15 *)

\* C15: a read of an object whose device annotation does not parse returns
\* an error and no model, for AnnotationToNodeInfo, KubeNodeToNodeInfo and
\* KubePodInfoToPodInfo alike.
C15_MalformedReported ==
  /\ (NodeReadOp /\ knode.ann.t = "malformed") =>
       (ncall.status = "err" /\ ncall.m = NilNodeInfo)
  /\ (PodReadOp /\ kpod.ann.t = "malformed") =>
       (pcall.status = "err" /\ pcall.m = NilPodInfo)

\* the node sync met a malformed annotation while the scheduler held cached
\* usage and the node reported capacity
C15_Witness ==
  /\ ncall.op = "KubeNodeToNodeInfo"
  /\ knode.ann.t = "malformed"
  /\ Keys(PassedUsed) # {}
  /\ DOMAIN knode.cap # {}
  /\ ncall.status = "err"

----------------------------------------------------------------------------
(* C17 *)

\* the entries a map field of an annotation document decodes to
DocMap(f) == IF f.t = "map" THEN f.m ELSE EmptyMap

DecodedNodeName(meta) == IF meta.ann.t = "doc" THEN meta.ann.d.nodename ELSE ""

BookkeepingKept(cm, docs, live) ==
  /\ Keys(cm) = Keys(docs) \cup LiveNames(live)
  /\ \A n \in Keys(docs) :
       /\ SameEntries(cm[n].Requests, DocMap(docs[n].requests))
       /\ SameEntries(cm[n].DevRequests, DocMap(docs[n].devrequests))
       /\ SameEntries(cm[n].AllocateFrom, DocMap(docs[n].allocatefrom))

\* C17: KubePodInfoToPodInfo without invalidation returns the NodeName of the
\* annotation and, for every container recorded in the annotation, the
\* Requests, DevRequests and AllocateFrom entries recorded there; the only
\* containers it adds are those of the live spec.
C17_BookkeepingPreserved ==
  (PodReadOk /\ ~pcall.inv) =>
    /\ pcall.m.NodeName = DecodedNodeName(kpod)
    /\ BookkeepingKept(pcall.m.InitContainers, AnnotatedContainers("initcontainer"),
                       kpod.initContainers)
    /\ BookkeepingKept(pcall.m.RunningContainers, AnnotatedContainers("runningcontainer"),
                       kpod.containers)

\* the annotation assigned a node, an allocation and device requests that
\* differ from the requests, and held a container the spec no longer names
C17_Witness ==
  /\ PodReadOk /\ ~pcall.inv
  /\ DecodedNodeName(kpod) = "n1"
  /\ Keys(AnnotatedContainers("runningcontainer")) = {"c0", "c1"}
  /\ LET d == AnnotatedContainers("runningcontainer")["c1"] IN
       /\ d.allocatefrom # FieldAbsent
       /\ d.requests # FieldAbsent
       /\ d.devrequests # FieldAbsent
       /\ d.devrequests # d.requests
  /\ Keys(pcall.m.RunningContainers["c1"].AllocateFrom) # {}

----------------------------------------------------------------------------
(* C18 *)

\* C18: after KubeNodeToNodeInfo returns a model, KubeCap and KubeAlloc hold,
\* for every resource of the node's status, the status value (as int64),
\* whatever the annotation carried; AnnotationToNodeInfo returns them as
\* decoded, which is empty.
C18_AuthoritativeCapacity ==
  /\ (ncall.op = "KubeNodeToNodeInfo" /\ ncall.status = "ok") =>
       /\ DOMAIN knode.cap \subseteq Keys(ncall.m.KubeCap)
       /\ \A k \in DOMAIN knode.cap : ncall.m.KubeCap[k] = QuantityValue(knode.cap[k])
       /\ DOMAIN knode.alloc \subseteq Keys(ncall.m.KubeAlloc)
       /\ \A k \in DOMAIN knode.alloc : ncall.m.KubeAlloc[k] = QuantityValue(knode.alloc[k])
  /\ (ncall.op = "AnnotationToNodeInfo" /\ ncall.status = "ok") =>
       (ncall.m.KubeCap = EmptyMap /\ ncall.m.KubeAlloc = EmptyMap)

\* the annotation carried a capacity for gpu other than the one of the status
C18_Witness ==
  /\ ncall.op = "KubeNodeToNodeInfo" /\ ncall.status = "ok"
  /\ knode.ann.t = "doc" /\ knode.ann.d.kubecap # FieldAbsent
  /\ knode.cap["gpu"] = 500
  /\ ncall.m.KubeCap["gpu"] = 1
  /\ DOMAIN knode.alloc # {}
  /\ existing = ncall.m

----------------------------------------------------------------------------
(* C19 *)

\* the Name the node's annotation decodes to
DecodedName == IF knode.ann.t = "doc" THEN knode.ann.d.name ELSE ""

\* C19 as stated: a node read returns the node's name only when the decoded
\* Name is empty and keeps any non-empty decoded Name; a pod read always
\* returns the pod's name.
C19_NameUnlessEmpty ==
  /\ NodeReadOk =>
       ncall.m.Name = (IF DecodedName = "" THEN knode.name ELSE DecodedName)
  /\ PodReadOk => pcall.m.Name = kpod.name

\* C19 amended: a node read returns the node's name when the decoded Name is
\* empty or only white space and keeps any other decoded Name, also one that
\* differs from the node's; a pod read always returns the pod's name.
C19_NameUnlessBlank ==
  /\ NodeReadOk =>
       ncall.m.Name = (IF DecodedName \in {"", " "} THEN knode.name ELSE DecodedName)
  /\ PodReadOk => pcall.m.Name = kpod.name

\* the annotation of node n1 held a name of white space only, and the read
\* returned n1
C19_Witness ==
  /\ NodeReadOk
  /\ DecodedName = " " /\ knode.name = "n1"
  /\ ncall.m.Name = "n1"

----------------------------------------------------------------------------
(* C20 *)

\* the fields of the metadata outside the device annotation
Untouched(before, after) ==
  \A f \in DOMAIN before \ {"ann", "anns"} : after[f] = before[f]

\* C20: a call of NodeInfoToAnnotation or PodInfoToAnnotation that succeeds
\* leaves an annotations map holding a document under the device key, and
\* every other annotation key and metadata field as it was; a call that
\* fails leaves the metadata as it was.
C20_EncodeFrame ==
  [][/\ (scn = "advertiser" /\ ncall'.op = "NodeInfoToAnnotation") =>
          IF ncall'.status = "ok"
          THEN /\ knode'.anns = "made" /\ knode'.ann.t = "doc"
               /\ AnnotationToNodeInfo(knode', NilNodeInfo).status = "ok"
               /\ Untouched(knode, knode')
          ELSE knode' = knode
     /\ (scn = "pod" /\ pcall'.op = "PodInfoToAnnotation") =>
          IF pcall'.status = "ok"
          THEN /\ kpod'.anns = "made" /\ kpod'.ann.t = "doc"
               /\ DecodePodAnnotation(kpod').status = "ok"
               /\ Untouched(kpod, kpod')
          ELSE kpod' = kpod]_vars

\* the advertiser wrote its model into metadata that holds another writer's
\* annotation key
C20_Witness ==
  /\ scn = "advertiser"
  /\ ncall.op = "NodeInfoToAnnotation" /\ ncall.status = "ok"
  /\ knode.other = "x" /\ knode.labels = "l0"
  /\ knode.ann.t = "doc"
  /\ Keys(nenc.Used) # {}

====
